---------------------------- MODULE Spec2Model ----------------------------
(***************************************************************************)
(* A model of the n-queens demo: build_subsets, exact_cover_bqm,           *)
(* handle_diag_constraints, n_queens and is_valid_solution, as state       *)
(* machines over the binary quadratic model they build.                    *)
(*                                                                         *)
(* Python lists are functions on 0..len-1, so that an index of the model   *)
(* is the index of the source.  A binary quadratic model is a record       *)
(*   [linear: variable -> bias, quadratic: {u, v} -> bias, offset, vartype]*)
(* with the additive add_variable / add_interaction of the container the   *)
(* source calls.  An assignment of the variables is the set of variables   *)
(* with value 1.                                                           *)
(***************************************************************************)
EXTENDS Integers, Sequences, FiniteSets, TLC

VARIABLES
    pc,                \* position in the program
    n,                 \* board size (0 when exact_cover_bqm is called on its own)
    problem_set,       \* exact_cover_bqm's argument, as passed (a sequence)
    subsets,           \* the list of subsets, indexed from 0
    pset,              \* problem_set after set(problem_set), exact_cover.py:37
    todo,              \* elements / constraints the running for loop has not visited
    offset,            \* the local offset of exact_cover_bqm, exact_cover.py:44
    bqm,               \* the model object
    bqm0,              \* the model as it was when handle_diag_constraints was entered
    diag_constraints,  \* handle_diag_constraints' argument
    sampler,           \* which sampler n_queens was given
    sample,            \* sampleset.first.sample: the variables with value 1
    solution,          \* the list n_queens returns
    valid              \* what is_valid_solution returned, and from which line

vars == <<pc, n, problem_set, subsets, pset, todo, offset, bqm, bqm0,
          diag_constraints, sampler, sample, solution, valid>>

(***************************************************************************)
(* Bounds of the model.                                                    *)
(***************************************************************************)
\* exact_cover_bqm on its own: elements are 0..MaxElem-1
MaxElem == 2
\* longest problem_set sequence
MaxLen == 2
\* longest list of subsets
MaxSubsets == 3
\* largest board whose subsets and model are built
MaxN == 4
\* the board size the tests solve and validate, tests/test_n_queens.py:48,67.
\* An exhaustive solver visits 2^(n*n) assignments: boards are solved up to
\* this size, larger ones are only assembled
TestN == 4

Elements == 0 .. (MaxElem - 1)

Range(s) == {s[k] : k \in DOMAIN s}

len(l) == Cardinality(DOMAIN l)

\* sequences over S of length at most k
SeqUpTo(S, k) == UNION {[1 .. m -> S] : m \in 0 .. k}

\* lists (indexed from 0) over S of length at most k
ListUpTo(S, k) == UNION {[0 .. (m - 1) -> S] : m \in 0 .. k}

(***************************************************************************)
(* The model container.                                                    *)
(***************************************************************************)
NoFun == [x \in {} |-> 0]

\* no model object exists yet
NoModel == [linear |-> NoFun, quadratic |-> NoFun, offset |-> 0, vartype |-> "NONE"]

\* BinaryQuadraticModel({}, {}, 0, 'BINARY')
BinaryQuadraticModel == [linear |-> NoFun, quadratic |-> NoFun, offset |-> 0, vartype |-> "BINARY"]

\* bqm.add_variable(v, bias): the bias is added to the variable's linear bias
add_variable(b, v, bias) ==
    IF v \in DOMAIN b.linear
    THEN [b EXCEPT !.linear[v] = @ + bias]
    ELSE [b EXCEPT !.linear = @ @@ (v :> bias)]

\* bqm.add_interaction(u, v, bias): the bias is added to the pair's quadratic
\* bias; a variable the model does not have yet is added with linear bias 0
add_interaction(b, u, v, bias) ==
    LET b1 == add_variable(add_variable(b, u, 0), v, 0)
    IN  IF {u, v} \in DOMAIN b1.quadratic
        THEN [b1 EXCEPT !.quadratic[{u, v}] = @ + bias]
        ELSE [b1 EXCEPT !.quadratic = @ @@ ({u, v} :> bias)]

\* the linear bias of v, 0 for a variable the model does not have
LinearBias(b, v) == IF v \in DOMAIN b.linear THEN b.linear[v] ELSE 0

\* the quadratic bias of the pair {u, v}, 0 for a pair without interaction
QuadraticBias(b, u, v) == IF {u, v} \in DOMAIN b.quadratic THEN b.quadratic[{u, v}] ELSE 0

\* range(k) as a sequence: 0, 1, ..., k-1
range(k) == [m \in 1 .. k |-> m - 1]

\* the indices i of range(k) with x in subs[i], in order: the iterations of
\* `for i in range(k)` that pass the test `if x in subsets[i]`
holding(subs, x, k) == SelectSeq(range(k), LAMBDA i : x \in subs[i])

RECURSIVE SumVals(_, _, _)
\* sum over the values v in vals of v times the number of x in D with f[x] = v
SumVals(f, D, vals) ==
    IF vals = {} THEN 0
    ELSE LET v == CHOOSE w \in vals : TRUE
         IN  v * Cardinality({x \in D : f[x] = v}) + SumVals(f, D, vals \ {v})

\* the sum of f[x] over x in D
SumOver(f, D) == SumVals(f, D, {f[x] : x \in D})

\* the energy of the assignment that sets exactly the variables in s to 1:
\* offset + sum of the linear biases of s + sum of the quadratic biases of the pairs within s
Energy(b, s) ==
    b.offset
    + SumOver(b.linear, s \cap DOMAIN b.linear)
    + SumOver(b.quadratic, {p \in DOMAIN b.quadratic : p \subseteq s})

(***************************************************************************)
(* exact_cover_bqm, exact_cover.py                                         *)
(***************************************************************************)
\* the mutant of has_duplicates: the check compares the set with itself
has_duplicates_nocheck(ps) == Cardinality(Range(ps)) # Cardinality(Range(ps))

\* len(set(problem_set)) != len(problem_set), lines 36-38
has_duplicates(ps) == Cardinality(Range(ps)) # Len(ps)

\* the linear bias added per covered element, line 50
cover_linear_bias == -1

\* the quadratic bias added per doubly covered element, line 54
cover_quadratic_bias == 2

RECURSIVE cover_inner(_, _, _)
\* for j in range(i): if element in subsets[j]: bqm.add_interaction(i, j, 2),
\* lines 52-54; js are the j of range(i) with element in subsets[j], in order
cover_inner(b, i, js) ==
    IF js = <<>> THEN b
    ELSE cover_inner(add_interaction(b, i, Head(js), cover_quadratic_bias), i, Tail(js))

\* the mutant of cover_body: the inner loop is left out, a double cover costs nothing
cover_body_nopenalty(b, subs, element, i) == add_variable(b, i, cover_linear_bias)

\* the mutant of cover_body: the reward is given once per variable, not once per
\* covered element
cover_body_once(b, subs, element, i) ==
    cover_inner(IF i \in DOMAIN b.linear THEN b ELSE add_variable(b, i, cover_linear_bias),
                i, holding(subs, element, i))

\* the body of `if element in subsets[i]`, lines 50-54
cover_body(b, subs, element, i) ==
    cover_inner(add_variable(b, i, cover_linear_bias), i, holding(subs, element, i))

RECURSIVE cover_outer(_, _, _, _)
\* for i in range(len(subsets)): if element in subsets[i]: ..., lines 48-54;
\* is are the i of range(len(subsets)) with element in subsets[i], in order.
\* nb is the model after the body of iteration Head(is); the rest of the loop
\* runs on it
cover_outer(b, subs, element, is) ==
    IF is = <<>> THEN b
    ELSE CHOOSE r \in {cover_outer(nb, subs, element, Tail(is)) :
                          nb \in {cover_body(b, subs, element, Head(is))}} : TRUE

\* one iteration of `for element in problem_set`, lines 48-54
cover_element(b, subs, element) ==
    cover_outer(b, subs, element, holding(subs, element, len(subs)))

\* lines 36-39: the duplicate check, before any model exists
ExactCoverCheck ==
    /\ pc = "cover_check"
    /\ IF has_duplicates(problem_set)
       THEN /\ pc' = "raised"
            /\ UNCHANGED pset
       ELSE /\ pc' = "cover_create"
            /\ pset' = Range(problem_set)
    /\ UNCHANGED <<n, problem_set, subsets, todo, offset, bqm, bqm0,
                   diag_constraints, sampler, sample, solution, valid>>

\* lines 42-44: the empty model and the local offset
ExactCoverCreate ==
    /\ pc = "cover_create"
    /\ bqm' = BinaryQuadraticModel
    /\ offset' = 0
    /\ todo' = pset
    /\ pc' = "cover_loop"
    /\ UNCHANGED <<n, problem_set, subsets, pset, bqm0,
                   diag_constraints, sampler, sample, solution, valid>>

\* lines 45-54: one iteration of `for element in problem_set` (a set: any order)
ExactCoverElement ==
    /\ pc = "cover_loop"
    /\ \E element \in todo :
          /\ offset' = offset + 1
          /\ bqm' = cover_element(bqm, subsets, element)
          /\ todo' = todo \ {element}
    /\ UNCHANGED <<pc, n, problem_set, subsets, pset, bqm0,
                   diag_constraints, sampler, sample, solution, valid>>

\* lines 56-58: bqm.offset = offset; return bqm
ExactCoverReturn ==
    /\ pc = "cover_loop"
    /\ todo = {}
    /\ bqm' = [bqm EXCEPT !.offset = offset]
    /\ pc' = "cover_done"
    /\ UNCHANGED <<n, problem_set, subsets, pset, todo, offset, bqm0,
                   diag_constraints, sampler, sample, solution, valid>>

(***************************************************************************)
(* handle_diag_constraints, n_queens.py                                    *)
(***************************************************************************)
\* the penalty added per shared diagonal ID, line 74
diag_quadratic_bias == 2

RECURSIVE diag_inner(_, _, _)
\* for j in range(i): if constraint in subsets[j]: bqm.add_interaction(i, j, 2),
\* lines 72-74; js are the j of range(i) with constraint in subsets[j], in order
diag_inner(b, i, js) ==
    IF js = <<>> THEN b
    ELSE diag_inner(add_interaction(b, i, Head(js), diag_quadratic_bias), i, Tail(js))

\* the mutant of diag_body: the body of exact_cover_bqm's loop, reward included
diag_body_reward(b, subs, constraint, i) ==
    diag_inner(add_variable(b, i, cover_linear_bias), i, holding(subs, constraint, i))

\* the mutant of diag_body: no penalty is added
diag_body_skip(b, subs, constraint, i) == b

\* the body of `if constraint in subsets[i]`, lines 72-74
diag_body(b, subs, constraint, i) == diag_inner(b, i, holding(subs, constraint, i))

RECURSIVE diag_outer(_, _, _, _)
\* for i in range(len(subsets)): if constraint in subsets[i]: ..., lines 70-74;
\* is are the i of range(len(subsets)) with constraint in subsets[i], in order.
\* nb is the model after the body of iteration Head(is); the rest of the loop
\* runs on it
diag_outer(b, subs, constraint, is) ==
    IF is = <<>> THEN b
    ELSE CHOOSE r \in {diag_outer(nb, subs, constraint, Tail(is)) :
                          nb \in {diag_body(b, subs, constraint, Head(is))}} : TRUE

\* one iteration of `for constraint in diag_constraints`, lines 70-74
diag_constraint(b, subs, constraint) ==
    diag_outer(b, subs, constraint, holding(subs, constraint, len(subs)))

\* line 69-74: one iteration of `for constraint in diag_constraints` (a set: any order)
HandleDiagConstraint ==
    /\ pc = "diag_loop"
    /\ \E constraint \in todo :
          /\ bqm' = diag_constraint(bqm, subsets, constraint)
          /\ todo' = todo \ {constraint}
    /\ UNCHANGED <<pc, n, problem_set, subsets, pset, offset, bqm0,
                   diag_constraints, sampler, sample, solution, valid>>

\* line 75: return bqm
HandleDiagReturn ==
    /\ pc = "diag_loop"
    /\ todo = {}
    /\ pc' = "diag_done"
    /\ UNCHANGED <<n, problem_set, subsets, pset, todo, offset, bqm, bqm0,
                   diag_constraints, sampler, sample, solution, valid>>

(***************************************************************************)
(* The two functions on arbitrary small inputs.                            *)
(***************************************************************************)
\* a caller passes the model exact_cover_bqm returned, the same subsets and
\* any set of constraints to handle_diag_constraints
CallHandleDiag ==
    /\ pc = "cover_done"
    /\ \E dc \in SUBSET Elements :
          /\ diag_constraints' = dc
          /\ todo' = dc
    /\ bqm0' = bqm
    /\ pc' = "diag_loop"
    /\ UNCHANGED <<n, problem_set, subsets, pset, offset, bqm,
                   sampler, sample, solution, valid>>

NoValid == [ret |-> FALSE, line |-> 0]

InitCover ==
    /\ pc = "cover_check"
    /\ n = 0
    /\ problem_set \in SeqUpTo(Elements, MaxLen)
    /\ subsets \in ListUpTo(SUBSET Elements, MaxSubsets)
    /\ pset = {}
    /\ todo = {}
    /\ offset = 0
    /\ bqm = NoModel
    /\ bqm0 = NoModel
    /\ diag_constraints = {}
    /\ sampler = "none"
    /\ sample = {}
    /\ solution = <<>>
    /\ valid = NoValid

NextCover ==
    \/ ExactCoverCheck
    \/ ExactCoverCreate
    \/ ExactCoverElement
    \/ ExactCoverReturn
    \/ CallHandleDiag
    \/ HandleDiagConstraint
    \/ HandleDiagReturn

SpecCover == InitCover /\ [][NextCover]_vars

(***************************************************************************)
(* build_subsets, n_queens.py                                              *)
(***************************************************************************)
\* diag = x + y + (2*n - 1), line 47
diag_id(nn, x, y) == x + y + (2 * nn - 1)

\* the mutant of anti_diag_id: the anti-diagonal is numbered like the diagonal
anti_diag_id_sum(nn, x, y) == (x + y) + (4 * nn - 4)

\* anti_diag = (n - 1 - x + y) + (4*n - 4), line 54
anti_diag_id(nn, x, y) == (nn - 1 - x + y) + (4 * nn - 4)

\* the mutant of in_diag_range: the range check is left out
in_diag_range_always(nn, diag) == TRUE

\* diag >= min_diag and diag <= max_diag, lines 48-51
in_diag_range(nn, diag) == diag >= 2 * nn /\ diag <= 4 * nn - 4

\* the mutant of in_anti_diag_range: the range check is left out
in_anti_diag_range_always(nn, anti_diag) == TRUE

\* anti_diag >= min_anti_diag and anti_diag <= max_anti_diag, lines 55-58
in_anti_diag_range(nn, anti_diag) == anti_diag >= 4 * nn - 3 /\ anti_diag <= 6 * nn - 7

\* the subset of the cell (x, y), lines 42-59
cell_subset(nn, x, y) ==
    {x, y + nn}
    \cup (IF in_diag_range(nn, diag_id(nn, x, y)) THEN {diag_id(nn, x, y)} ELSE {})
    \cup (IF in_anti_diag_range(nn, anti_diag_id(nn, x, y))
          THEN {anti_diag_id(nn, x, y)} ELSE {})

\* the cell appended at list index i: x is the outer loop, y the inner one
cell_x(nn, i) == i \div nn

cell_y(nn, i) == i % nn

\* build_subsets(n), lines 39-63
build_subsets(nn) == [i \in 0 .. (nn * nn - 1) |-> cell_subset(nn, cell_x(nn, i), cell_y(nn, i))]

(***************************************************************************)
(* n_queens, n_queens.py                                                   *)
(***************************************************************************)
\* set(range(2 * n)), lines 86-87, as the sequence 0, 1, ..., 2n-1
row_col_constraint_ids(nn) == [k \in 1 .. (2 * nn) |-> k - 1]

\* set(range(2n, 2n + 4n - 6)), lines 89-90
diag_constraint_ids(nn) == (2 * nn) .. (2 * nn + (4 * nn - 6) - 1)

\* the assignments of the model's variables
Assignments(b) == SUBSET DOMAIN b.linear

\* the lowest-energy assignments of the model: what an exhaustive solver's
\* sampleset.first can be
lowest_energy(b) ==
    LET E == [s \in Assignments(b) |-> Energy(b, s)]
        m == CHOOSE e \in Range(E) : \A f \in Range(E) : e <= f
    IN  {s \in Assignments(b) : E[s] = m}

\* what sampler.sample(bqm).first.sample can be, lines 104-105: an exhaustive
\* solver returns a lowest-energy assignment, a heuristic one any assignment
first_sample(smp, b) == IF smp = "exact" THEN lowest_energy(b) ELSE Assignments(b)

RECURSIVE selected(_, _, _)
\* [subsets[i] for i in sample if sample[i]], line 107, from index i on.  The
\* list is kept in index order: its callers take its length and count the IDs
\* in it, neither of which reads the order
selected(subs, s, i) ==
    IF i >= len(subs) THEN <<>>
    ELSE (IF i \in s THEN <<subs[i]>> ELSE <<>>) \o selected(subs, s, i + 1)

\* lines 86-96: the constraint IDs, the subsets, and the call of exact_cover_bqm
NQueensStart ==
    /\ pc = "start"
    /\ subsets' = build_subsets(n)
    /\ problem_set' = row_col_constraint_ids(n)
    /\ pc' = "cover_check"
    /\ UNCHANGED <<n, pset, todo, offset, bqm, bqm0,
                   diag_constraints, sampler, sample, solution, valid>>

\* line 99: the call of handle_diag_constraints
NQueensCallDiag ==
    /\ pc = "cover_done"
    /\ diag_constraints' = diag_constraint_ids(n)
    /\ todo' = diag_constraint_ids(n)
    /\ bqm0' = bqm
    /\ pc' = "diag_loop"
    /\ UNCHANGED <<n, problem_set, subsets, pset, offset, bqm,
                   sampler, sample, solution, valid>>

\* lines 101-107: the sampler's first sample and the list of selected subsets
NQueensSample ==
    /\ pc = "diag_done"
    /\ n <= TestN
    /\ \E smp \in {"exact", "heuristic"} :
          \E s \in first_sample(smp, bqm) :
             /\ sampler' = smp
             /\ sample' = s
             /\ solution' = selected(subsets, s, 0)
    /\ pc' = "returned"
    /\ UNCHANGED <<n, problem_set, subsets, pset, todo, offset, bqm, bqm0,
                   diag_constraints, valid>>

(***************************************************************************)
(* is_valid_solution, n_queens.py                                          *)
(***************************************************************************)
\* count[i] after lines 118-121: the number of queens whose set holds i
count(sol, i) == Cardinality({k \in DOMAIN sol : i \in sol[k]})

\* the mutant of checked_row_col: only the columns are checked
checked_row_col_cols(nn) == 0 .. (nn - 1)

\* range(2*n), line 124
checked_row_col(nn) == 0 .. (2 * nn - 1)

\* range(2*n, 4*n - 6), line 136
checked_diag(nn) == (2 * nn) .. (4 * nn - 6 - 1)

\* is_valid_solution(n, solution), lines 118-145: the value returned and the
\* line of the return statement
is_valid_solution(nn, sol) ==
    IF \E i \in checked_row_col(nn) : count(sol, i) # 1
    THEN [ret |-> FALSE, line |-> 133]
    ELSE IF \E i \in checked_diag(nn) : count(sol, i) > 1
         THEN [ret |-> FALSE, line |-> 143]
         ELSE [ret |-> TRUE, line |-> 145]

\* the caller checks the solution, n_queens.py:217, tests/test_n_queens.py:55,62,70
Validate ==
    /\ pc = "returned"
    /\ valid' = is_valid_solution(n, solution)
    /\ pc' = "validated"
    /\ UNCHANGED <<n, problem_set, subsets, pset, todo, offset, bqm, bqm0,
                   diag_constraints, sampler, sample, solution>>

\* tests/test_n_queens.py:51-54, "2 queens in a column"
TestInvalidColumn == <<{0, 10, 7}, {0, 9, 6, 17}, {16, 2, 12, 7}, {11, 13, 3, 5}>>

\* tests/test_n_queens.py:58-61, "0 queens in a row"
TestInvalidRow == <<{0, 9, 6, 17}, {1, 7, 11, 17}, {16, 2, 12, 7}, {11, 13, 3, 5}>>

\* n_queens(n) is called for a board size n
InitNQueens ==
    /\ pc = "start"
    /\ n \in 1 .. MaxN
    /\ problem_set = <<>>
    /\ subsets = NoFun
    /\ pset = {}
    /\ todo = {}
    /\ offset = 0
    /\ bqm = NoModel
    /\ bqm0 = NoModel
    /\ diag_constraints = {}
    /\ sampler = "none"
    /\ sample = {}
    /\ solution = <<>>
    /\ valid = NoValid

\* test_invalid_solutions hands a written-out solution to is_valid_solution
InitTestInvalid ==
    /\ pc = "returned"
    /\ n = TestN
    /\ problem_set = <<>>
    /\ subsets = NoFun
    /\ pset = {}
    /\ todo = {}
    /\ offset = 0
    /\ bqm = NoModel
    /\ bqm0 = NoModel
    /\ diag_constraints = {}
    /\ sampler = "none"
    /\ sample = {}
    /\ solution \in {TestInvalidColumn, TestInvalidRow}
    /\ valid = NoValid

InitQueens == InitNQueens \/ InitTestInvalid

NextQueens ==
    \/ NQueensStart
    \/ ExactCoverCheck
    \/ ExactCoverCreate
    \/ ExactCoverElement
    \/ ExactCoverReturn
    \/ NQueensCallDiag
    \/ HandleDiagConstraint
    \/ HandleDiagReturn
    \/ NQueensSample
    \/ Validate

SpecQueens == InitQueens /\ [][NextQueens]_vars

(***************************************************************************)
(* Definitions the properties are stated with.                             *)
(***************************************************************************)
\* the number of subsets selected by s that contain e
Covering(subs, s, e) == Cardinality({i \in s \cap DOMAIN subs : e \in subs[i]})

\* sum over the elements e of ps of (Covering(e) - 1)^2
SquaredMiss(subs, ps, s) ==
    SumOver([e \in ps |-> (Covering(subs, s, e) - 1) * (Covering(subs, s, e) - 1)], ps)

\* s selects an exact cover of ps
IsExactCover(subs, ps, s) == \A e \in ps : Covering(subs, s, e) = 1

\* the sequence ps holds some element twice
Repeats(ps) == \E k, l \in DOMAIN ps : k # l /\ ps[k] = ps[l]

\* the ID ranges of a board of size nn
Cols(nn) == 0 .. (nn - 1)

Rows(nn) == nn .. (2 * nn - 1)

Diags(nn) == (2 * nn) .. (4 * nn - 4)

AntiDiags(nn) == (4 * nn - 3) .. (6 * nn - 7)

\* the board coordinates of the cell a subset belongs to, read off its
\* column and row ID
ColOf(nn, s) == CHOOSE c \in s : c \in Cols(nn)

RowOf(nn, s) == (CHOOSE r \in s : r \in Rows(nn)) - nn

\* queens on the cells of s and t attack each other
Attack(nn, s, t) ==
    \/ ColOf(nn, s) = ColOf(nn, t)
    \/ RowOf(nn, s) = RowOf(nn, t)
    \/ ColOf(nn, s) + RowOf(nn, s) = ColOf(nn, t) + RowOf(nn, t)
    \/ ColOf(nn, s) - RowOf(nn, s) = ColOf(nn, t) - RowOf(nn, t)

\* the cell of s is one of the four corners of the board
IsCorner(nn, s) == ColOf(nn, s) \in {0, nn - 1} /\ RowOf(nn, s) \in {0, nn - 1}

(***************************************************************************)
(* C1                                                                      *)
(***************************************************************************)
\* C1: in the model exact_cover_bqm returns, every assignment of the variables
\* has energy equal to the sum over the elements of problem_set of
\* (number of selected subsets containing the element - 1)^2; the energy is
\* never negative, it is 0 exactly for the exact covers, and when an exact
\* cover exists some assignment has energy 0.
C1_EnergyIsSquaredMiss ==
    pc = "cover_done" =>
        /\ \A s \in Assignments(bqm) :
              /\ Energy(bqm, s) = SquaredMiss(subsets, pset, s)
              /\ Energy(bqm, s) >= 0
              /\ (Energy(bqm, s) = 0 <=> IsExactCover(subsets, pset, s))
        /\ (\E c \in SUBSET DOMAIN subsets : IsExactCover(subsets, pset, c))
              => \E s \in Assignments(bqm) : Energy(bqm, s) = 0

\* exact_cover_bqm returned a model in which two subsets together are an exact
\* cover and two overlapping subsets are not
C1_Witness ==
    /\ pc = "cover_done"
    /\ \E s \in Assignments(bqm) : Cardinality(s) = 2 /\ Energy(bqm, s) = 0
    /\ \E s \in Assignments(bqm) :
          /\ Energy(bqm, s) > 0
          /\ \E e \in pset : Covering(subsets, s, e) = 2

(***************************************************************************)
(* C7                                                                      *)
(***************************************************************************)
\* C7: exact_cover_bqm raises ValueError exactly when problem_set holds an
\* element more than once, and when it raises no model has been created.
C7_RaisesOnDuplicates ==
    /\ pc # "cover_check" => (pc = "raised" <=> Repeats(problem_set))
    /\ pc = "raised" => bqm = NoModel

\* exact_cover_bqm raised on a problem_set with a repeated element
C7_Witness == pc = "raised" /\ Len(problem_set) = 2 /\ problem_set[1] = problem_set[2]

(***************************************************************************)
(* C8                                                                      *)
(***************************************************************************)
\* C8: in the model exact_cover_bqm returns, the linear bias of variable i is
\* minus the number of problem_set elements in subsets[i], the quadratic bias
\* of a pair is 2 times the number of problem_set elements in both subsets
\* (no interaction when there is none), the offset is the number of elements
\* of problem_set, and a subset without an element of problem_set is no variable.
C8_BiasesAccumulate ==
    pc = "cover_done" =>
        /\ bqm.offset = Cardinality(pset)
        /\ DOMAIN bqm.linear = {i \in DOMAIN subsets : subsets[i] \cap pset # {}}
        /\ \A i \in DOMAIN bqm.linear :
              bqm.linear[i] = 0 - Cardinality(subsets[i] \cap pset)
        /\ DOMAIN bqm.quadratic =
              {{i, j} : i, j \in DOMAIN subsets} \cap
              {p \in SUBSET DOMAIN subsets :
                  Cardinality(p) = 2 /\ \E e \in pset : \A i \in p : e \in subsets[i]}
        /\ \A i, j \in DOMAIN subsets :
              i # j => QuadraticBias(bqm, i, j)
                          = 2 * Cardinality(subsets[i] \cap subsets[j] \cap pset)

\* exact_cover_bqm returned a model where a variable covers two elements and a
\* pair of subsets shares two elements
C8_Witness ==
    /\ pc = "cover_done"
    /\ \E i \in DOMAIN bqm.linear : bqm.linear[i] = -2
    /\ \E p \in DOMAIN bqm.quadratic : bqm.quadratic[p] = 4

(***************************************************************************)
(* C9                                                                      *)
(***************************************************************************)
\* C9: when handle_diag_constraints returns, the quadratic bias of every pair
\* of distinct subsets has grown by 2 times the number of IDs of
\* diag_constraints in both subsets, a pair sharing none has the interaction
\* it had (or still none), and every linear bias and the offset are as they
\* were when it was called.
C9_DiagOnlyAddsPenalties ==
    pc = "diag_done" =>
        /\ \A i, j \in DOMAIN subsets :
              i # j =>
                 /\ QuadraticBias(bqm, i, j)
                       = QuadraticBias(bqm0, i, j)
                         + 2 * Cardinality(diag_constraints \cap subsets[i] \cap subsets[j])
                 /\ diag_constraints \cap subsets[i] \cap subsets[j] = {}
                       => ({i, j} \in DOMAIN bqm.quadratic <=> {i, j} \in DOMAIN bqm0.quadratic)
        /\ \A p \in DOMAIN bqm.quadratic : p \subseteq DOMAIN subsets /\ Cardinality(p) = 2
        /\ \A v \in DOMAIN bqm.linear \cup DOMAIN bqm0.linear :
              LinearBias(bqm, v) = LinearBias(bqm0, v)
        /\ bqm.offset = bqm0.offset
        /\ bqm.vartype = bqm0.vartype

\* handle_diag_constraints returned after raising the penalty of a pair that
\* had one already, in a model with linear biases
C9_Witness ==
    /\ pc = "diag_done"
    /\ \E i \in DOMAIN bqm0.linear : bqm0.linear[i] < 0
    /\ \E p \in DOMAIN bqm0.quadratic : bqm.quadratic[p] > bqm0.quadratic[p]

(***************************************************************************)
(* C5                                                                      *)
(***************************************************************************)
\* C5: build_subsets(n) returns n*n subsets, one per cell (x, y), each with
\* exactly the column ID x and the row ID n+y, at most one diagonal ID in
\* [2n, 4n-4], at most one anti-diagonal ID in [4n-3, 6n-7] and no other ID;
\* the four ID ranges are pairwise disjoint.
C5_SubsetShape ==
    pc = "cover_check" =>
        /\ len(subsets) = n * n
        /\ \A x, y \in 0 .. (n - 1) :
              Cardinality({i \in DOMAIN subsets : x \in subsets[i] /\ n + y \in subsets[i]}) = 1
        /\ \A i \in DOMAIN subsets :
              /\ Cardinality(subsets[i] \cap Cols(n)) = 1
              /\ Cardinality(subsets[i] \cap Rows(n)) = 1
              /\ Cardinality(subsets[i] \cap Diags(n)) <= 1
              /\ Cardinality(subsets[i] \cap AntiDiags(n)) <= 1
              /\ subsets[i] \subseteq Cols(n) \cup Rows(n) \cup Diags(n) \cup AntiDiags(n)
        /\ Cols(n) \cap Rows(n) = {}
        /\ (Cols(n) \cup Rows(n)) \cap Diags(n) = {}
        /\ (Cols(n) \cup Rows(n) \cup Diags(n)) \cap AntiDiags(n) = {}

\* build_subsets returned the subsets of a board with a cell on a diagonal and
\* an anti-diagonal, and a cell without diagonal ID
C5_Witness ==
    /\ pc = "cover_check"
    /\ n >= 3
    /\ \E i \in DOMAIN subsets :
          subsets[i] \cap Diags(n) # {} /\ subsets[i] \cap AntiDiags(n) # {}
    /\ \E i \in DOMAIN subsets : subsets[i] \cap Diags(n) = {}

(***************************************************************************)
(* C6                                                                      *)
(***************************************************************************)
\* C6, as claimed: every subset of build_subsets(n) holds exactly 2 or exactly
\* 4 IDs, a cell has a diagonal ID if and only if it has an anti-diagonal ID,
\* and the four corner cells have neither.
C6_TwoOrFourIds ==
    pc = "cover_check" =>
        \A i \in DOMAIN subsets :
           /\ Cardinality(subsets[i]) \in {2, 4}
           /\ subsets[i] \cap Diags(n) # {} <=> subsets[i] \cap AntiDiags(n) # {}
           /\ IsCorner(n, subsets[i]) => Cardinality(subsets[i]) = 2

\* C6, amended: for n >= 2 every subset of build_subsets(n) holds exactly 3 or
\* exactly 4 IDs: a corner cell has exactly one of the two (the anti-diagonal
\* ID at (0, 0) and (n-1, n-1), the diagonal ID at the other two corners),
\* every other cell has both; for n = 1 the only cell has its column and row
\* ID alone.
C6_CornersLackOneId ==
    pc = "cover_check" =>
        \A i \in DOMAIN subsets :
           LET s == subsets[i]
               hasDiag == s \cap Diags(n) # {}
               hasAnti == s \cap AntiDiags(n) # {}
           IN  /\ n = 1 => Cardinality(s) = 2
               /\ n >= 2 /\ ~IsCorner(n, s) => Cardinality(s) = 4 /\ hasDiag /\ hasAnti
               /\ n >= 2 /\ IsCorner(n, s) =>
                     /\ Cardinality(s) = 3
                     /\ ColOf(n, s) = RowOf(n, s) => ~hasDiag /\ hasAnti
                     /\ ColOf(n, s) # RowOf(n, s) => hasDiag /\ ~hasAnti

\* build_subsets returned the subsets of a board with corner cells of 3 IDs
\* and other cells of 4
C6_Witness ==
    /\ pc = "cover_check"
    /\ n >= 3
    /\ \E i \in DOMAIN subsets : IsCorner(n, subsets[i]) /\ Cardinality(subsets[i]) = 3
    /\ \E i \in DOMAIN subsets : ~IsCorner(n, subsets[i]) /\ Cardinality(subsets[i]) = 4

(***************************************************************************)
(* C10                                                                     *)
(***************************************************************************)
\* C10: two distinct cells of build_subsets(n) share an ID if and only if
\* queens on them attack each other, and never more than one; in the model
\* n_queens assembles every cell is a variable of linear bias -2, the offset
\* is 2n, the quadratic bias of a pair is 2 when the cells attack each other
\* and there is no interaction otherwise; and an assignment has energy 0
\* exactly when it selects n mutually non-attacking cells.
C10_ModelOfAttacks ==
    /\ pc = "cover_check" =>
          \A i, j \in DOMAIN subsets :
             i # j =>
                /\ subsets[i] \cap subsets[j] # {} <=> Attack(n, subsets[i], subsets[j])
                /\ Cardinality(subsets[i] \cap subsets[j]) <= 1
    /\ pc = "diag_done" =>
          /\ DOMAIN bqm.linear = DOMAIN subsets
          /\ \A i \in DOMAIN subsets : bqm.linear[i] = -2
          /\ bqm.offset = 2 * n
          /\ \A i, j \in DOMAIN subsets :
                i # j =>
                   IF Attack(n, subsets[i], subsets[j])
                   THEN {i, j} \in DOMAIN bqm.quadratic /\ bqm.quadratic[{i, j}] = 2
                   ELSE {i, j} \notin DOMAIN bqm.quadratic
    /\ pc = "returned" /\ sampler # "none" =>
          (Energy(bqm, sample) = 0
             <=> /\ Cardinality(sample) = n
                 /\ \A i, j \in sample : i # j => ~Attack(n, subsets[i], subsets[j]))

\* the sampler returned an assignment of energy 0 on the board of the tests
C10_Witness ==
    /\ pc = "returned"
    /\ sampler = "heuristic"
    /\ n = TestN
    /\ Energy(bqm, sample) = 0

(***************************************************************************)
(* C4                                                                      *)
(***************************************************************************)
\* C4: with an exhaustive solver on a board that has a solution (n = 1 and
\* the n = 4 of the tests), n_queens returns exactly n subsets, no two of
\* which share a column, a row, a diagonal or an anti-diagonal, and
\* is_valid_solution accepts them, whichever lowest-energy assignment the
\* solver reports.
C4_ExactSolverPlacesQueens ==
    pc = "validated" /\ sampler = "exact" /\ n \in {1, TestN} =>
        /\ Len(solution) = n
        /\ \A k, l \in DOMAIN solution :
              k # l => ~Attack(n, solution[k], solution[l])
        /\ valid.ret = TRUE

\* the solution of the exhaustive solver on the board of the tests was checked
C4_Witness == pc = "validated" /\ sampler = "exact" /\ n = TestN /\ Len(solution) = TestN

(***************************************************************************)
(* C3                                                                      *)
(***************************************************************************)
\* C3: is_valid_solution returns False from its row/column check (line 133)
\* exactly when some column ID in [0, n) or row ID in [n, 2n) occurs a number
\* of times other than 1 in the solution.
C3_RowColumnCheck ==
    pc = "validated" =>
        /\ (\E i \in Cols(n) \cup Rows(n) : count(solution, i) # 1) <=> valid.line = 133
        /\ valid.line = 133 => valid.ret = FALSE

\* the test's solution with two queens in column 0 was rejected
C3_Witness ==
    /\ pc = "validated"
    /\ solution = TestInvalidColumn
    /\ count(solution, 0) = 2
    /\ valid.ret = FALSE

(***************************************************************************)
(* C2                                                                      *)
(***************************************************************************)
\* C2: is_valid_solution returns False whenever a diagonal or anti-diagonal
\* ID (an ID in [2n, 6n-7]) occurs in more than one subset of the solution,
\* also when every row and column ID occurs exactly once.
C2_DiagonalRepeatRejected ==
    pc = "validated" /\ (\E i \in Diags(n) \cup AntiDiags(n) : count(solution, i) > 1)
        => valid.ret = FALSE

=============================================================================
